---------------------------- MODULE Spec2Model ----------------------------
(***************************************************************************)
(* A model of two parts of rust-serde:                                     *)
(*   - src/src/iter.rs: LineColIterator, a byte iterator that tracks the   *)
(*     line and the column of what it has consumed;                        *)
(*   - src/serde2/src/json/value.rs: the json Value tree, the Serializer   *)
(*     that builds a Value from visitor calls and the Deserializer (with   *)
(*     SeqDeserializer and MapDeserializer) that feeds a Value to a        *)
(*     visitor.                                                            *)
(* Each part has its own specification; the variables of the other parts   *)
(* stay at their initial value.                                            *)
(***************************************************************************)
EXTENDS Integers, Sequences, FiniteSets, TLC

VARIABLES
    lc,         \* the LineColIterator: [iter, line, col]
    lc_input,   \* history: the items of the underlying iterator, as given to new()
    lc_out,     \* history: the items next() returned so far (None excluded)
    lc_ret,     \* the Option the last call returned
    lc_op,      \* the last call: "new", "next" or "peek"
    phase,      \* which part is running: "iter", "ser" or "de"
    ser,        \* the Serializer: [state], the stack of frames
    ser_k,      \* the calls of the Serializer in progress, innermost last
    ser_plan,   \* what the source does: anything (free), or the calls left of a script
    ser_last,   \* history: the last event of the source
    ser_src,    \* history: the plan to_value started with
    ser_out,    \* how to_value ended: running, a value, or a panic
    ser_of,     \* history: the Value whose visit is the script, if there is one
    rt_out,     \* what from_value::<Value> returned for the Value to_value built
    de,         \* the Deserializer: [value], the slot
    de_k,       \* the calls into the sink in progress, innermost last
    de_ret,     \* what the last call the sink made returned to it
    de_last,    \* history: the last call the sink made, and the call on its visitor
    de_src,     \* history: the Value given to from_value
    de_fuel,    \* the steps the sink has left
    de_out      \* how from_value ended: running, a result, or a panic

lcVars == <<lc, lc_input, lc_out, lc_ret, lc_op>>
serVars == <<ser, ser_k, ser_plan, ser_last, ser_src, ser_out, ser_of, rt_out>>
deVars == <<de, de_k, de_ret, de_last, de_src, de_fuel, de_out>>
vars ==
    <<lc, lc_input, lc_out, lc_ret, lc_op, phase, ser, ser_k, ser_plan, ser_last, ser_src,
      ser_out, ser_of, rt_out, de, de_k, de_ret, de_last, de_src, de_fuel, de_out>>

(***************************************************************************)
(* Option<T>: None is the empty sequence, Some(x) the sequence <<x>>.      *)
(***************************************************************************)
None == <<>>
Some(x) == <<x>>

(***************************************************************************)
(*                       src/src/iter.rs                                   *)
(***************************************************************************)

\* Bound: the length of the underlying byte sequence.
MaxBytes == 5

\* b'\n'
NEWLINE == 10
\* The bytes the underlying sequence draws from: '\n', 'a', 'b', 'c', 'd'.
Bytes == {NEWLINE, 97, 98, 99, 100}
\* The io::Error values the underlying sequence draws from.
IoErrors == {1, 2}

\* io::Result<u8>
Ok(b) == [ok |-> TRUE, v |-> b]
Err(e) == [ok |-> FALSE, v |-> e]
Items == {Ok(b) : b \in Bytes} \cup {Err(e) : e \in IoErrors}

RECURSIVE SeqsUpTo(_, _)
SeqsUpTo(S, n) ==
    IF n = 0 THEN {<<>>}
    ELSE LET shorter == SeqsUpTo(S, n - 1)
         IN  shorter \cup {Append(s, x) : s \in {t \in shorter : Len(t) = n - 1}, x \in S}

\* Peekable<Iter>: the underlying iterator (the items it has yet to yield)
\* and the one-item lookahead buffer.
Peekable(items) == [iter |-> items, peeked |-> None]

\* Peekable::next: the buffered item if there is one, else the underlying next().
PeekableNext(p) ==
    IF p.peeked # None
    THEN [p |-> [p EXCEPT !.peeked = None], ret |-> p.peeked]
    ELSE IF p.iter = <<>>
         THEN [p |-> p, ret |-> None]
         ELSE [p |-> [p EXCEPT !.iter = Tail(p.iter)], ret |-> Some(Head(p.iter))]

\* Peekable::peek: fills the buffer from the underlying iterator when it is empty.
PeekablePeek(p) ==
    IF p.peeked # None
    THEN [p |-> p, ret |-> p.peeked]
    ELSE IF p.iter = <<>>
         THEN [p |-> p, ret |-> None]
         ELSE [p |-> [p EXCEPT !.iter = Tail(p.iter), !.peeked = Some(Head(p.iter))],
               ret |-> Some(Head(p.iter))]

\* LineColIterator::new
LineColIterator_new(items) == [iter |-> Peekable(items), line |-> 1, col |-> 0]

\* A next() that forgets to reset the column on a newline.
LineColIterator_next_NoReset(self) ==
    LET r == PeekableNext(self.iter)
        s == [self EXCEPT !.iter = r.p]
    IN  CASE r.ret = None -> [self |-> s, ret |-> None]
          [] r.ret # None /\ r.ret[1].ok /\ r.ret[1].v = NEWLINE ->
                [self |-> [s EXCEPT !.line = self.line + 1], ret |-> Some(Ok(NEWLINE))]
          [] r.ret # None /\ r.ret[1].ok /\ r.ret[1].v # NEWLINE ->
                [self |-> [s EXCEPT !.col = self.col + 1], ret |-> Some(Ok(r.ret[1].v))]
          [] r.ret # None /\ ~r.ret[1].ok ->
                [self |-> s, ret |-> Some(Err(r.ret[1].v))]

\* A next() that counts an error item as a column.
LineColIterator_next_ErrMoves(self) ==
    LET r == PeekableNext(self.iter)
        s == [self EXCEPT !.iter = r.p]
    IN  CASE r.ret = None -> [self |-> s, ret |-> None]
          [] r.ret # None /\ r.ret[1].ok /\ r.ret[1].v = NEWLINE ->
                [self |-> [s EXCEPT !.line = self.line + 1, !.col = 0],
                 ret |-> Some(Ok(NEWLINE))]
          [] r.ret # None /\ r.ret[1].ok /\ r.ret[1].v # NEWLINE ->
                [self |-> [s EXCEPT !.col = self.col + 1], ret |-> Some(Ok(r.ret[1].v))]
          [] r.ret # None /\ ~r.ret[1].ok ->
                [self |-> [s EXCEPT !.col = self.col + 1], ret |-> Some(Err(r.ret[1].v))]

\* <LineColIterator as Iterator>::next: the four arms of the match.
\* line and col are usize; they cannot overflow before 2^64 items were read.
LineColIterator_next(self) ==
    LET r == PeekableNext(self.iter)
        s == [self EXCEPT !.iter = r.p]
    IN  CASE r.ret = None -> [self |-> s, ret |-> None]
          [] r.ret # None /\ r.ret[1].ok /\ r.ret[1].v = NEWLINE ->
                [self |-> [s EXCEPT !.line = self.line + 1, !.col = 0],
                 ret |-> Some(Ok(NEWLINE))]
          [] r.ret # None /\ r.ret[1].ok /\ r.ret[1].v # NEWLINE ->
                [self |-> [s EXCEPT !.col = self.col + 1], ret |-> Some(Ok(r.ret[1].v))]
          [] r.ret # None /\ ~r.ret[1].ok ->
                [self |-> s, ret |-> Some(Err(r.ret[1].v))]

\* A peek() that takes the item it shows.
LineColIterator_peek_Consumes(self) ==
    LET r == PeekableNext(self.iter)
    IN  [self |-> [self EXCEPT !.iter = r.p], ret |-> r.ret]

\* LineColIterator::peek
LineColIterator_peek(self) ==
    LET r == PeekablePeek(self.iter)
    IN  [self |-> [self EXCEPT !.iter = r.p], ret |-> r.ret]

\* LineColIterator::line, LineColIterator::col
LineColIterator_line(self) == self.line
LineColIterator_col(self) == self.col

LcInit ==
    /\ lc_input \in SeqsUpTo(Items, MaxBytes)
    /\ lc = LineColIterator_new(lc_input)
    /\ lc_out = <<>>
    /\ lc_ret = None
    /\ lc_op = "new"

\* A call of next().
LcNext ==
    LET r == LineColIterator_next(lc)
    IN  /\ lc' = r.self
        /\ lc_ret' = r.ret
        /\ lc_out' = lc_out \o r.ret
        /\ lc_op' = "next"
        /\ UNCHANGED <<lc_input, phase, serVars, deVars>>

\* A call of peek().
LcPeek ==
    LET r == LineColIterator_peek(lc)
    IN  /\ lc' = r.self
        /\ lc_ret' = r.ret
        /\ lc_op' = "peek"
        /\ UNCHANGED <<lc_input, lc_out, phase, serVars, deVars>>


(***************************************************************************)
(*                 Claims about LineColIterator                            *)
(***************************************************************************)

RECURSIVE NewlinesIn(_)
\* The number of newline bytes among the items s.
NewlinesIn(s) ==
    IF s = <<>> THEN 0
    ELSE NewlinesIn(Tail(s)) + (IF Head(s) = Ok(NEWLINE) THEN 1 ELSE 0)

RECURSIVE ColumnOf(_)
\* The number of bytes other than newline in s after its last newline byte
\* (error items are no bytes).
ColumnOf(s) ==
    IF s = <<>> THEN 0
    ELSE LET last == s[Len(s)]
             front == SubSeq(s, 1, Len(s) - 1)
         IN  IF last = Ok(NEWLINE) THEN 0
             ELSE ColumnOf(front) + (IF last.ok THEN 1 ELSE 0)

\* The bytes "ab\ncd".
AbNlCd == <<Ok(97), Ok(98), Ok(NEWLINE), Ok(99), Ok(100)>>

\* C8: a new LineColIterator is at line 1, column 0; after any calls, line() is
\* 1 plus the number of newline bytes next() has returned and col() the number
\* of other bytes it has returned since the last newline; over "ab\ncd" the
\* positions are (1,1), (1,2), (2,0), (2,1).
PositionTracking ==
    /\ lc_op = "new" => LineColIterator_line(lc) = 1 /\ LineColIterator_col(lc) = 0
    /\ LineColIterator_line(lc) = 1 + NewlinesIn(lc_out)
    /\ LineColIterator_col(lc) = ColumnOf(lc_out)
    /\ lc_input = AbNlCd =>
          /\ Len(lc_out) = 1 => <<lc.line, lc.col>> = <<1, 1>>
          /\ Len(lc_out) = 2 => <<lc.line, lc.col>> = <<1, 2>>
          /\ Len(lc_out) = 3 => <<lc.line, lc.col>> = <<2, 0>>
          /\ Len(lc_out) = 4 => <<lc.line, lc.col>> = <<2, 1>>

\* "ab\nc" of "ab\ncd" has been consumed.
PositionTrackingWitness ==
    /\ lc_input = AbNlCd
    /\ lc_out = SubSeq(AbNlCd, 1, 4)
    /\ lc_op = "next"

\* The item the underlying sequence yields to the next call of next().
UnderlyingNext == IF Len(lc_out) < Len(lc_input) THEN Some(lc_input[Len(lc_out) + 1]) ELSE None

\* C9: a next() for which the underlying sequence yields an error returns that
\* error and leaves line and col as they were; the byte consumed right after
\* an error counts from that position.
ErrorPassThrough ==
    [][ /\ (lc_op' = "next" /\ UnderlyingNext # None /\ ~UnderlyingNext[1].ok) =>
              /\ lc_ret' = UnderlyingNext
              /\ lc'.line = lc.line
              /\ lc'.col = lc.col
        /\ (lc_op = "next" /\ lc_ret # None /\ ~lc_ret[1].ok
              /\ lc_op' = "next" /\ UnderlyingNext # None /\ UnderlyingNext[1].ok) =>
              IF UnderlyingNext[1].v = NEWLINE
              THEN lc'.line = lc.line + 1 /\ lc'.col = 0
              ELSE lc'.line = lc.line /\ lc'.col = lc.col + 1
      ]_vars

\* An error was returned away from the start position, and a byte after it.
ErrorPassThroughWitness ==
    /\ Len(lc_out) >= 4
    /\ lc_out[1] = Ok(NEWLINE)
    /\ lc_out[2].ok /\ lc_out[2].v # NEWLINE
    /\ ~lc_out[3].ok
    /\ lc_out[4].ok /\ lc_out[4].v # NEWLINE
    /\ lc.line = 2 /\ lc.col = 2

\* The items the iterator has yet to return: the buffered one, then the rest.
Pending(self) == self.iter.peeked \o self.iter.iter

\* C17: peek() leaves line(), col(), the items returned so far and the items
\* yet to return as they were, and shows the item the underlying sequence
\* yields next; the next() that follows peek() calls returns the item peek()
\* showed; every next() returns the underlying sequence's next item, None at
\* its end, so that the items returned are always the underlying sequence up
\* to that point, whatever peek() calls come between.
LookaheadTransparency ==
    [][ /\ lc_op' = "peek" =>
              /\ lc'.line = lc.line /\ lc'.col = lc.col
              /\ lc_out' = lc_out
              /\ Pending(lc') = Pending(lc)
              /\ lc_ret' = UnderlyingNext
        /\ (lc_op = "peek" /\ lc_op' = "next") => lc_ret' = lc_ret
        /\ lc_op' = "next" =>
              /\ lc_ret' = UnderlyingNext
              /\ lc_out' \o Pending(lc') = lc_input
              /\ Pending(lc') = IF Pending(lc) = <<>> THEN <<>> ELSE Tail(Pending(lc))
      ]_vars

\* After 'a' and an error were returned, peek() shows the third item, which is
\* buffered and not consumed, and the position is still that after 'a'.
LookaheadTransparencyWitness ==
    /\ Len(lc_input) >= 3
    /\ lc_out = <<Ok(97), Err(1)>>
    /\ lc_op = "peek"
    /\ lc_ret = Some(lc_input[3])
    /\ lc.iter.peeked = lc_ret
    /\ lc.line = 1 /\ lc.col = 1

(***************************************************************************)
(*                 src/serde2/src/json/value.rs: the data                  *)
(***************************************************************************)

\* A 64-bit integer is written as four digits in base 2^16, most significant
\* first: <<d1, d2, d3, d4>> is d1 * 2^48 + d2 * 2^32 + d3 * 2^16 + d4 with
\* 0 <= d2, d3, d4 < 2^16. The leading digit of a u64 is in 0 .. 2^16 - 1 and
\* that of an i64 in -2^15 .. 2^15 - 1, so that every integer has one numeral.
Base == 2 ^ 16
HalfBase == 2 ^ 15
IsDigits(n) == n \in Seq(Int) /\ Len(n) = 4 /\ \A j \in 2..4 : n[j] \in 0..(Base - 1)
IsU64(n) == IsDigits(n) /\ n[1] \in 0..(Base - 1)
IsI64(n) == IsDigits(n) /\ n[1] \in (0 - HalfBase)..(HalfBase - 1)
\* The numeral of a small integer, |n| < 2^16.
Num(n) == IF n >= 0 THEN <<0, 0, 0, n>> ELSE <<-1, Base - 1, Base - 1, Base + n>>

\* u64 as i64 that saturates at i64::MAX instead of wrapping.
as_i64_Saturating(value) ==
    IF value[1] >= HalfBase THEN <<HalfBase - 1, Base - 1, Base - 1, Base - 1>> ELSE value

\* `value as i64` of a u64: the same 64 bits read as two's complement.
as_i64(value) ==
    IF value[1] >= HalfBase THEN <<value[1] - Base, value[2], value[3], value[4]>> ELSE value

\* A String is the sequence of its chars (code points); Strings are ordered as
\* Rust orders them, lexicographically.
RECURSIVE StrLess(_, _)
StrLess(a, b) ==
    IF b = <<>> THEN FALSE
    ELSE IF a = <<>> THEN TRUE
    ELSE IF a[1] # b[1] THEN a[1] < b[1]
    ELSE StrLess(Tail(a), Tail(b))

\* char::to_string, str::to_string
char_to_string(c) == <<c>>
str_to_string(s) == s

\* f64 payloads are named by their literal; "NaN" is the one not equal to itself.
f64_eq(a, b) == a = b /\ a # "NaN"

\* enum Value. Each variant names its payload differently, so that two
\* payloads are compared only when they are of the same variant.
Value_Null == [t |-> "Null"]
Value_Bool(b) == [t |-> "Bool", b |-> b]
Value_I64(i) == [t |-> "I64", i |-> i]
Value_F64(f) == [t |-> "F64", f |-> f]
Value_String(s) == [t |-> "String", s |-> s]
Value_Array(a) == [t |-> "Array", a |-> a]
Value_Object(o) == [t |-> "Object", o |-> o]

\* A BTreeMap<String, Value> is the sequence of its entries <<key, value>> in
\* ascending key order, which is the order its iterators yield them in.
BTreeMap_new == <<>>

RECURSIVE BTreeMap_insert(_, _, _)
\* BTreeMap::insert: the entry replaces one with an equal key.
BTreeMap_insert(m, k, v) ==
    IF m = <<>> THEN << <<k, v>> >>
    ELSE IF m[1][1] = k THEN << <<k, v>> >> \o Tail(m)
    ELSE IF StrLess(k, m[1][1]) THEN << <<k, v>> >> \o m
    ELSE <<m[1]>> \o BTreeMap_insert(Tail(m), k, v)

\* Vec::with_capacity: an empty Vec, whatever the capacity.
Vec_with_capacity(len) == <<>>

RECURSIVE Value_eq(_, _)
\* #[derive(PartialEq)] for Value
Value_eq(a, b) ==
    /\ a.t = b.t
    /\ CASE a.t = "Null" -> TRUE
         [] a.t = "Bool" -> a.b = b.b
         [] a.t = "I64" -> a.i = b.i
         [] a.t = "F64" -> f64_eq(a.f, b.f)
         [] a.t = "String" -> a.s = b.s
         [] a.t = "Array" ->
              /\ Len(a.a) = Len(b.a)
              /\ \A j \in 1..Len(a.a) : Value_eq(a.a[j], b.a[j])
         [] a.t = "Object" ->
              /\ Len(a.o) = Len(b.o)
              /\ \A j \in 1..Len(a.o) :
                    a.o[j][1] = b.o[j][1] /\ Value_eq(a.o[j][2], b.o[j][2])

\* enum State: a frame of the Serializer's stack
State_Value(value) == [t |-> "Value", value |-> value]
State_Array(values) == [t |-> "Array", arr |-> values]
State_Object(values) == [t |-> "Object", obj |-> values]

(***************************************************************************)
(*            src/serde2/src/json/value.rs: the Serializer                 *)
(* A handler that calls back into the source (value.visit(self),           *)
(* visitor.visit(self)) is modelled in parts: what it does before the      *)
(* call and what it does once the call has returned Ok. Each part yields   *)
(* [self, panic]: the Serializer after it, and whether it panicked.        *)
(***************************************************************************)

\* Vec::push, Vec::pop and Vec::last on the stack of frames
Push(self, frame) == [self EXCEPT !.state = Append(@, frame)]
Pop(self) == [self EXCEPT !.state = SubSeq(@, 1, Len(@) - 1)]
Last(self) == self.state[Len(self.state)]
Done(self) == [self |-> self, panic |-> FALSE]
Panic(self) == [self |-> self, panic |-> TRUE]

\* Serializer::new
Serializer_new == [state |-> <<>>]

\* Serializer::unwrap: [panic, value]
Serializer_unwrap(self) ==
    IF self.state = <<>> THEN [panic |-> TRUE, value |-> Value_Null]
    ELSE IF Last(self).t = "Value" THEN [panic |-> FALSE, value |-> Last(self).value]
    ELSE [panic |-> TRUE, value |-> Value_Null]

visit_unit(self) == Push(self, State_Value(Value_Null))
visit_bool(self, value) == Push(self, State_Value(Value_Bool(value)))
visit_i64(self, value) == Push(self, State_Value(Value_I64(value)))

\* A visit_u64 that saturates.
visit_u64_Saturating(self, value) == Push(self, State_Value(Value_I64(as_i64_Saturating(value))))

visit_u64(self, value) == Push(self, State_Value(Value_I64(as_i64(value))))
visit_f64(self, value) == Push(self, State_Value(Value_F64(value)))
visit_char(self, value) == Push(self, State_Value(Value_String(char_to_string(value))))
visit_str(self, value) == Push(self, State_Value(Value_String(str_to_string(value))))
visit_none(self) == visit_unit(self)

\* visit_seq up to its first visitor.visit(self): hint is what size_hint()
\* returned, <<lower, Option<upper>>>.
visit_seq_open(self, hint) ==
    LET len == IF hint[2] # None THEN hint[2][1] ELSE hint[1]
        values == Vec_with_capacity(len)
    IN  Push(self, State_Array(values))

\* A visit_seq that leaves its array frame beneath the completed value.
visit_seq_close_KeepsFrame(self) ==
    IF self.state = <<>> THEN Panic(self)
    ELSE IF Last(self).t = "Array"
         THEN Done(Push(self, State_Value(Value_Array(Last(self).arr))))
         ELSE Panic(Pop(self))

\* visit_seq once visitor.visit(self) has returned Ok(None).
visit_seq_close(self) ==
    IF self.state = <<>> THEN Panic(self)
    ELSE IF Last(self).t = "Array"
         THEN Done(Push(Pop(self), State_Value(Value_Array(Last(self).arr))))
         ELSE Panic(Pop(self))

\* A visit_seq_elt that drops the element and returns Ok when the frame
\* beneath is no array frame.
visit_seq_elt_finish_Lenient(self) ==
    IF self.state = <<>> THEN Panic(self)
    ELSE IF Last(self).t # "Value" THEN Panic(Pop(self))
    ELSE LET value == Last(self).value
             s1 == Pop(self)
         IN  IF s1.state = <<>> THEN Panic(s1)
             ELSE IF Last(s1).t = "Array"
                  THEN Done(Push(Pop(s1), State_Array(Append(Last(s1).arr, value))))
                  ELSE Done(s1)

\* visit_seq_elt once value.visit(self) has returned Ok.
visit_seq_elt_finish(self) ==
    IF self.state = <<>> THEN Panic(self)
    ELSE IF Last(self).t # "Value" THEN Panic(Pop(self))
    ELSE LET value == Last(self).value
             s1 == Pop(self)
         IN  IF s1.state = <<>> THEN Panic(s1)
             ELSE IF Last(s1).t = "Array"
                  THEN Done(Push(Pop(s1), State_Array(Append(Last(s1).arr, value))))
                  ELSE Panic(s1)

\* visit_map up to its first visitor.visit(self).
visit_map_open(self) ==
    LET values == BTreeMap_new
    IN  Push(self, State_Object(values))

\* visit_map once visitor.visit(self) has returned Ok(None).
visit_map_close(self) ==
    IF self.state = <<>> THEN Panic(self)
    ELSE IF Last(self).t = "Object"
         THEN Done(Push(Pop(self), State_Value(Value_Object(Last(self).obj))))
         ELSE Panic(Pop(self))

\* visit_map_elt once key.visit(self) and value.visit(self) have returned Ok:
\* the first pop, of the frame on top, is taken for the key.
visit_map_elt_finish(self) ==
    IF self.state = <<>> THEN Panic(self)
    ELSE IF ~(Last(self).t = "Value" /\ Last(self).value.t = "String") THEN Panic(Pop(self))
    ELSE LET key == Last(self).value.s
             s1 == Pop(self)
         IN  IF s1.state = <<>> THEN Panic(s1)
             ELSE IF Last(s1).t # "Value" THEN Panic(Pop(s1))
             ELSE LET value == Last(s1).value
                      s2 == Pop(s1)
                  IN  IF s2.state = <<>> THEN Panic(s2)
                      ELSE IF Last(s2).t = "Object"
                           THEN Done(Push(Pop(s2),
                                    State_Object(BTreeMap_insert(Last(s2).obj, key, value))))
                           ELSE Panic(s2)

(***************************************************************************)
(*          to_value: a source drives the Serializer                       *)
(* The source is any code that implements ser::Serialize: it calls the     *)
(* visitor's methods and returns. An event is one thing the source does:   *)
(* a call of a visitor method, "ret" (a visit body returns Ok, a           *)
(* SeqVisitor or MapVisitor returns Ok(None)) or "fail" (it returns Err).  *)
(* The source is either free, and does anything within the bounds, or it   *)
(* follows a script, a sequence of events.                                 *)
(***************************************************************************)

\* Bounds of the free source: the events it makes, the frames on the stack
\* (and the calls in progress), and the elements of one array or object.
MaxEvents == 7
MaxFrames == 3
MaxElts == 2
MaxDepth == MaxFrames

\* An event is a tuple, its kind first: <<"unit">>, <<"bool", TRUE>>.
Ev(e) == <<e>>
EvV(e, v) == <<e, v>>

\* 2^63 + 5
TwoTo63Plus5 == <<HalfBase, 0, 0, 5>>

\* What a free source calls the visitor with.
FreeBools == {}
FreeI64s == {}
FreeU64s == {TwoTo63Plus5}
FreeF64s == {}
FreeChars == {}
FreeStrs == {<<97>>, <<120>>}
\* size_hint() of a sequence source: <<lower, Option<upper>>>
Hints == {<<0, None>>, <<1, Some(1)>>}

Free == [free |-> TRUE, todo |-> <<>>, fuel |-> MaxEvents]
Script(events) == [free |-> FALSE, todo |-> events, fuel |-> 0]

\* The events of this kind the source may do next, and the plan after one.
Choices(kind, frees) ==
    IF ser_plan.free THEN {EvV(kind, v) : v \in IF ser_plan.fuel > 0 THEN frees ELSE {}}
    ELSE IF ser_plan.todo # <<>> /\ Head(ser_plan.todo)[1] = kind THEN {Head(ser_plan.todo)}
    ELSE {}
Choice(kind) == Choices(kind, {0}) # {}
\* The source does ev.
Advance(ev) ==
    /\ ser_plan' = IF ser_plan.free THEN [ser_plan EXCEPT !.fuel = @ - 1]
                   ELSE [ser_plan EXCEPT !.todo = Tail(@)]
    /\ ser_last' = ev
    /\ ser_src' = ser_src

Running == phase = "ser" /\ ser_out.res = "running"
\* The source has control, and the other parts stay as they are.
SerCall == Running /\ UNCHANGED <<phase, lcVars, deVars, ser_of, rt_out>>
Top(k) == k[Len(k)]
\* The bounds, for a free source only.
RoomToPush == ser_plan.free => Len(ser.state) < MaxFrames
RoomToCall == ser_plan.free => Len(ser_k) < MaxDepth
RoomForElt ==
    ser_plan.free =>
        \A j \in 1..Len(ser.state) :
            /\ ser.state[j].t = "Array" => Len(ser.state[j].arr) < MaxElts
            /\ ser.state[j].t = "Object" => Len(ser.state[j].obj) < MaxElts

\* A handler part r = [self, panic] has run; the call in progress ends with it
\* when pop, and a panic ends everything.
Finish(r, where, k) ==
    /\ ser' = r.self
    /\ IF r.panic
       THEN /\ ser_out' = [res |-> "panic", at |-> where]
            /\ ser_k' = ser_k
       ELSE /\ ser_out' = ser_out
            /\ ser_k' = k

Popped(k) == SubSeq(k, 1, Len(k) - 1)

\* The history of a visit_seq or visit_map in progress: when an element call
\* ends, what the element's streams had left on top of the stack is added to
\* the innermost visit_seq or visit_map that encloses the call.
Enclosing(k) ==
    LET js == {j \in 1..Len(k) : k[j].at \in {"visit_seq", "visit_map"}}
    IN  IF js = {} THEN 0 ELSE CHOOSE j \in js : \A i \in js : i <= j
Noted(k, what) ==
    LET j == Enclosing(Popped(k))
    IN  IF j = 0 THEN Popped(k)
        ELSE [Popped(k) EXCEPT ![j].emitted = Append(@, what)]

TopFrame == IF ser.state = <<>> THEN None ELSE Some(Last(ser))

SerVisitUnit ==
    /\ SerCall /\ RoomToPush /\ Choice("unit") /\ Advance(Ev("unit"))
    /\ ser' = visit_unit(ser)
    /\ UNCHANGED <<ser_k, ser_out>>

SerVisitBool ==
    \E ev \in Choices("bool", FreeBools) :
        /\ SerCall /\ RoomToPush /\ Advance(ev)
        /\ ser' = visit_bool(ser, ev[2])
        /\ UNCHANGED <<ser_k, ser_out>>

SerVisitI64 ==
    \E ev \in Choices("i64", FreeI64s) :
        /\ SerCall /\ RoomToPush /\ Advance(ev)
        /\ ser' = visit_i64(ser, ev[2])
        /\ UNCHANGED <<ser_k, ser_out>>

SerVisitU64 ==
    \E ev \in Choices("u64", FreeU64s) :
        /\ SerCall /\ RoomToPush /\ Advance(ev)
        /\ ser' = visit_u64(ser, ev[2])
        /\ UNCHANGED <<ser_k, ser_out>>

SerVisitF64 ==
    \E ev \in Choices("f64", FreeF64s) :
        /\ SerCall /\ RoomToPush /\ Advance(ev)
        /\ ser' = visit_f64(ser, ev[2])
        /\ UNCHANGED <<ser_k, ser_out>>

SerVisitChar ==
    \E ev \in Choices("char", FreeChars) :
        /\ SerCall /\ RoomToPush /\ Advance(ev)
        /\ ser' = visit_char(ser, ev[2])
        /\ UNCHANGED <<ser_k, ser_out>>

SerVisitStr ==
    \E ev \in Choices("str", FreeStrs) :
        /\ SerCall /\ RoomToPush /\ Advance(ev)
        /\ ser' = visit_str(ser, ev[2])
        /\ UNCHANGED <<ser_k, ser_out>>

SerVisitNone ==
    /\ SerCall /\ RoomToPush /\ Choice("none") /\ Advance(Ev("none"))
    /\ ser' = visit_none(ser)
    /\ UNCHANGED <<ser_k, ser_out>>

\* visit_some calls value.visit(self) and returns what it returns.
SerVisitSome ==
    /\ SerCall /\ RoomToCall /\ Choice("some") /\ Advance(Ev("some"))
    /\ ser_k' = Append(ser_k, [at |-> "visit_some"])
    /\ UNCHANGED <<ser, ser_out>>

SerVisitSomeReturn ==
    /\ SerCall /\ Top(ser_k).at = "visit_some" /\ Choice("ret") /\ Advance(Ev("ret"))
    /\ ser_k' = Popped(ser_k)
    /\ UNCHANGED <<ser, ser_out>>

SerVisitSeq ==
    \E ev \in Choices("seq", Hints) :
        /\ SerCall /\ RoomToPush /\ RoomToCall /\ Advance(ev)
        /\ ser' = visit_seq_open(ser, ev[2])
        /\ ser_k' = Append(ser_k, [at |-> "visit_seq", emitted |-> <<>>, hint |-> ev[2], s |-> ser.state])
        /\ UNCHANGED ser_out

\* The SeqVisitor returns Ok(None).
SerVisitSeqEnd ==
    /\ SerCall /\ Top(ser_k).at = "visit_seq" /\ Choice("ret") /\ Advance(Ev("ret"))
    /\ Finish(visit_seq_close(ser), "visit_seq", Popped(ser_k))

SerVisitSeqElt ==
    /\ SerCall /\ RoomToCall /\ RoomForElt /\ Choice("seq_elt") /\ Advance(Ev("seq_elt"))
    /\ ser_k' = Append(ser_k, [at |-> "visit_seq_elt", s |-> ser.state])
    /\ UNCHANGED <<ser, ser_out>>

\* The element's value.visit(self) returns Ok.
SerVisitSeqEltEnd ==
    /\ SerCall /\ Top(ser_k).at = "visit_seq_elt" /\ Choice("ret") /\ Advance(Ev("ret"))
    /\ Finish(visit_seq_elt_finish(ser), "visit_seq_elt", Noted(ser_k, TopFrame))

SerVisitMap ==
    /\ SerCall /\ RoomToPush /\ RoomToCall /\ Choice("map") /\ Advance(Ev("map"))
    /\ ser' = visit_map_open(ser)
    /\ ser_k' = Append(ser_k, [at |-> "visit_map", emitted |-> <<>>, s |-> ser.state])
    /\ UNCHANGED ser_out

\* The MapVisitor returns Ok(None).
SerVisitMapEnd ==
    /\ SerCall /\ Top(ser_k).at = "visit_map" /\ Choice("ret") /\ Advance(Ev("ret"))
    /\ Finish(visit_map_close(ser), "visit_map", Popped(ser_k))

SerVisitMapElt ==
    /\ SerCall /\ RoomToCall /\ RoomForElt /\ Choice("map_elt") /\ Advance(Ev("map_elt"))
    /\ ser_k' = Append(ser_k, [at |-> "visit_map_elt", key |-> None, stage |-> "key",
                               base |-> Len(ser.state), mid |-> Len(ser.state),
                               s |-> ser.state])
    /\ UNCHANGED <<ser, ser_out>>

\* The entry's key.visit(self) returns Ok; value.visit(self) is called.
SerVisitMapEltKeyDone ==
    /\ SerCall /\ Top(ser_k).at = "visit_map_elt" /\ Top(ser_k).stage = "key"
    /\ Choice("ret") /\ Advance(Ev("ret"))
    /\ ser_k' = [ser_k EXCEPT ![Len(ser_k)] =
                    [at |-> "visit_map_elt", key |-> Some(TopFrame), stage |-> "value",
                     base |-> Top(ser_k).base, mid |-> Len(ser.state),
                     s |-> Top(ser_k).s]]
    /\ UNCHANGED <<ser, ser_out>>

\* The entry's value.visit(self) returns Ok.
SerVisitMapEltEnd ==
    /\ SerCall /\ Top(ser_k).at = "visit_map_elt" /\ Top(ser_k).stage = "value"
    /\ Choice("ret") /\ Advance(Ev("ret"))
    /\ Finish(visit_map_elt_finish(ser), "visit_map_elt",
              Noted(ser_k, <<Top(ser_k).key[1], TopFrame>>))

\* The source returns Err somewhere: every caller up to Serializer::visit
\* passes it on (try!), and to_value's .ok().unwrap() panics.
SerSourceFails ==
    /\ SerCall /\ Choice("fail") /\ Advance(Ev("fail"))
    /\ ser_out' = [res |-> "panic", at |-> "to_value"]
    /\ UNCHANGED <<ser, ser_k>>

\* The source's visit returns Ok to Serializer::visit, and to_value unwraps.
SerToValueReturn ==
    /\ SerCall /\ Top(ser_k).at = "to_value" /\ Choice("ret") /\ Advance(Ev("ret"))
    /\ LET r == Serializer_unwrap(ser)
       IN  /\ ser_out' = IF r.panic THEN [res |-> "panic", at |-> "unwrap"]
                         ELSE [res |-> "value", value |-> r.value]
           /\ ser' = IF ser.state = <<>> THEN ser ELSE Pop(ser)
    /\ UNCHANGED ser_k

(***************************************************************************)
(*       Value as a source: impl ser::Serialize for Value                  *)
(***************************************************************************)

RECURSIVE Value_visit(_)
\* Value::visit, as the events it makes. An Array is a Vec<Value>, whose visit
\* calls visit_seq with a visitor over its elements that reports its exact
\* length and calls visit_seq_elt for each; an Object is a BTreeMap, whose
\* visit calls visit_map with a visitor that calls visit_map_elt for each
\* entry, in key order, the key a String.
Vec_visit(v) ==
    LET RECURSIVE Elts(_)
        Elts(l) == IF l = <<>> THEN <<>>
                   ELSE <<Ev("seq_elt")>> \o Value_visit(Head(l)) \o <<Ev("ret")>> \o Elts(Tail(l))
    IN  <<EvV("seq", <<Len(v), Some(Len(v))>>)>> \o Elts(v) \o <<Ev("ret")>>

BTreeMap_visit(v) ==
    LET RECURSIVE Elts(_)
        Elts(l) == IF l = <<>> THEN <<>>
                   ELSE <<Ev("map_elt"), EvV("str", Head(l)[1]), Ev("ret")>>
                        \o Value_visit(Head(l)[2]) \o <<Ev("ret")>> \o Elts(Tail(l))
    IN  <<Ev("map")>> \o Elts(v) \o <<Ev("ret")>>

Value_visit(self) ==
    CASE self.t = "Null" -> <<Ev("unit")>>
      [] self.t = "Bool" -> <<EvV("bool", self.b)>>
      [] self.t = "I64" -> <<EvV("i64", self.i)>>
      [] self.t = "F64" -> <<EvV("f64", self.f)>>
      [] self.t = "String" -> <<EvV("str", self.s)>>
      [] self.t = "Array" -> Vec_visit(self.a)
      [] self.t = "Object" -> BTreeMap_visit(self.o)

\* to_value(&source): the source's events, and its visit returning Ok.
ToValueOf(events) == Script(events \o <<Ev("ret")>>)

(***************************************************************************)
(*                    The inputs of the scripts                            *)
(***************************************************************************)

\* Bound: the nodes of a Value given to to_value or from_value.
MaxNodes == 3

Keys == {<<97>>, <<120>>}
Prims ==
    {Value_Null, Value_Bool(TRUE), Value_I64(Num(1)), Value_F64("1.5"), Value_F64("NaN"),
     Value_String(<<97>>)}

\* The BTreeMap with the entries keys[j] -> vals[j], inserted in this order.
RECURSIVE MapOf(_, _)
MapOf(keys, vals) ==
    IF vals = <<>> THEN BTreeMap_new
    ELSE LET n == Len(vals)
         IN  BTreeMap_insert(MapOf(SubSeq(keys, 1, n - 1), SubSeq(vals, 1, n - 1)),
                             keys[n], vals[n])

RECURSIVE ValuesOfSize(_, _), ListsOfSize(_, _)
\* The Values of exactly n nodes with primitives of P, and the lists of such
\* Values of k nodes in all.
ValuesOfSize(P, n) ==
    IF n = 1 THEN P \cup {Value_Array(<<>>), Value_Object(BTreeMap_new)}
    ELSE LET lists == ListsOfSize(P, n - 1)
         IN  {Value_Array(l) : l \in lists}
             \cup UNION {{Value_Object(MapOf(ks, l)) : ks \in [1..Len(l) -> Keys]} : l \in lists}
ListsOfSize(P, k) ==
    IF k = 0 THEN {<<>>}
    ELSE UNION {{<<v>> \o l : v \in ValuesOfSize(P, j), l \in ListsOfSize(P, k - j)} : j \in 1..k}

\* The Values given to to_value.
Values == UNION {ValuesOfSize(Prims, n) : n \in 1..MaxNodes}

\* Bound: the elements of an Array and the entries inserted into an Object
\* given to from_value::<T>.
MaxDeElts == 2
DeKeys == {<<97>>, <<98>>, <<120>>}
DeElts ==
    {Value_Null, Value_I64(Num(1)), Value_Array(<<Value_Null>>),
     Value_Object(MapOf(<< <<97>> >>, <<Value_I64(Num(1))>>))}
\* The Values given to from_value::<T>: every primitive, the Arrays of DeElts,
\* and the Objects of DeElts inserted under DeKeys in every order.
DeValues ==
    LET lists == SeqsUpTo(DeElts, MaxDeElts)
    IN  Prims \cup {Value_Array(l) : l \in lists}
        \cup UNION {{Value_Object(MapOf(ks, l)) : ks \in [1..Len(l) -> DeKeys]} : l \in lists}

\* {"x": 1, "y": [true, null]}
ScenarioValue ==
    Value_Object(<< <<(<<120>>), Value_I64(Num(1))>>,
                    <<(<<121>>), Value_Array(<<Value_Bool(TRUE), Value_Null>>)>> >>)

\* A mapping source that emits ("x", 1) and then ("y", [true, null]), the
\* sequence reporting its two elements.
ScenarioEvents ==
    <<Ev("map"),
      Ev("map_elt"), EvV("str", <<120>>), Ev("ret"), EvV("i64", Num(1)), Ev("ret"),
      Ev("map_elt"), EvV("str", <<121>>), Ev("ret"),
          EvV("seq", <<2, Some(2)>>),
          Ev("seq_elt"), EvV("bool", TRUE), Ev("ret"),
          Ev("seq_elt"), Ev("unit"), Ev("ret"),
          Ev("ret"), Ev("ret"),
      Ev("ret")>>

\* A mapping source that emits ("a", 1) and then ("a", 2).
DuplicateKeys ==
    <<Ev("map"),
      Ev("map_elt"), EvV("str", <<97>>), Ev("ret"), EvV("i64", Num(1)), Ev("ret"),
      Ev("map_elt"), EvV("str", <<97>>), Ev("ret"), EvV("i64", Num(2)), Ev("ret"),
      Ev("ret")>>

\* A mapping source that emits ("a", "p") and then ("a", "q").
DuplicateKeysStr ==
    <<Ev("map"),
      Ev("map_elt"), EvV("str", <<97>>), Ev("ret"), EvV("str", <<112>>), Ev("ret"),
      Ev("map_elt"), EvV("str", <<97>>), Ev("ret"), EvV("str", <<113>>), Ev("ret"),
      Ev("ret")>>

\* A sequence source that reports one element and emits "x" and then "a".
UnderReportedSeq ==
    <<EvV("seq", <<1, Some(1)>>),
      Ev("seq_elt"), EvV("str", <<120>>), Ev("ret"),
      Ev("seq_elt"), EvV("str", <<97>>), Ev("ret"),
      Ev("ret")>>

\* The u64 values of the scripts: 0, 5, 2^63 - 1, 2^63, 2^63 + 5, 2^64 - 1.
U64Inputs ==
    {<<0, 0, 0, 0>>, <<0, 0, 0, 5>>, <<HalfBase - 1, Base - 1, Base - 1, Base - 1>>,
     <<HalfBase, 0, 0, 0>>, TwoTo63Plus5, <<Base - 1, Base - 1, Base - 1, Base - 1>>}

\* Sources that make one call with no value of a Value behind it.
PrimitiveScripts ==
    {<<EvV("u64", u)>> : u \in U64Inputs}
    \cup {<<EvV("bool", FALSE)>>, <<EvV("i64", Num(-1))>>, <<EvV("char", 97)>>, <<Ev("none")>>,
          <<Ev("some"), EvV("u64", TwoTo63Plus5), Ev("ret")>>}

\* The scripts with no Value behind them.
Scripts ==
    {ToValueOf(e) : e \in PrimitiveScripts \cup {ScenarioEvents, DuplicateKeys, DuplicateKeysStr,
                                                   UnderReportedSeq}}

SerIdle ==
    /\ ser = Serializer_new
    /\ ser_k = <<>>
    /\ ser_plan = Free
    /\ ser_src = Free
    /\ ser_last = Ev("new")
    /\ ser_out = [res |-> "idle"]
    /\ ser_of = None
    /\ rt_out = None

\* to_value is called on a source.
SerInit ==
    /\ phase = "ser"
    /\ ser = Serializer_new
    /\ ser_k = <<[at |-> "to_value"]>>
    /\ \/ ser_plan \in {Free} \cup Scripts /\ ser_of = None
       \/ \E v \in Values \cup {ScenarioValue} :
            ser_plan = ToValueOf(Value_visit(v)) /\ ser_of = Some(v)
    /\ ser_src = ser_plan
    /\ ser_last = Ev("new")
    /\ ser_out = [res |-> "running"]
    /\ rt_out = None

LcIdle ==
    /\ lc = LineColIterator_new(<<>>)
    /\ lc_input = <<>>
    /\ lc_out = <<>>
    /\ lc_ret = None
    /\ lc_op = "new"

(***************************************************************************)
(*     src/serde2/src/json/value.rs: the Deserializer and its drivers      *)
(* A result is <<"Ok", x>> or <<"Err", e>>. A method that calls back into  *)
(* the sink is modelled in parts, as for the Serializer.                   *)
(***************************************************************************)
ROk(x) == <<"Ok", x>>
RErr(e) == <<"Err", e>>
\* de::Error::end_of_stream_error()
EndOfStream == "EndOfStream"

\* Deserializer::new
Deserializer_new(value) == [value |-> Some(value)]

\* A visit that leaves the value in the slot.
Deserializer_visit_NoTake(self) ==
    IF self.value = None THEN [self |-> self, call |-> RErr(EndOfStream)]
    ELSE LET value == self.value[1]
         IN  [self |-> self,
              call |->
                CASE value.t = "Null" -> <<"visit_unit">>
                  [] value.t = "Bool" -> <<"visit_bool", value.b>>
                  [] value.t = "I64" -> <<"visit_i64", value.i>>
                  [] value.t = "F64" -> <<"visit_f64", value.f>>
                  [] value.t = "String" -> <<"visit_string", value.s>>
                  [] value.t = "Array" ->
                        <<"visit_seq", [iter |-> value.a, len |-> Len(value.a)]>>
                  [] value.t = "Object" ->
                        <<"visit_map", [iter |-> value.o, value |-> None, len |-> Len(value.o)]>>]

\* A visit whose driver for an Array leaves out the first element.
Deserializer_visit_SkipsFirst(self) ==
    IF self.value = None THEN [self |-> self, call |-> RErr(EndOfStream)]
    ELSE LET value == self.value[1]
         IN  [self |-> [self EXCEPT !.value = None],
              call |->
                CASE value.t = "Null" -> <<"visit_unit">>
                  [] value.t = "Bool" -> <<"visit_bool", value.b>>
                  [] value.t = "I64" -> <<"visit_i64", value.i>>
                  [] value.t = "F64" -> <<"visit_f64", value.f>>
                  [] value.t = "String" -> <<"visit_string", value.s>>
                  [] value.t = "Array" ->
                        <<"visit_seq",
                          [iter |-> IF value.a = <<>> THEN <<>> ELSE Tail(value.a),
                           len |-> Len(value.a)]>>
                  [] value.t = "Object" ->
                        <<"visit_map", [iter |-> value.o, value |-> None, len |-> Len(value.o)]>>]

\* Deserializer::visit: the slot is taken; the call it makes on the visitor,
\* with the driver it builds for an Array or an Object, or the error it returns.
Deserializer_visit(self) ==
    IF self.value = None THEN [self |-> self, call |-> RErr(EndOfStream)]
    ELSE LET value == self.value[1]
         IN  [self |-> [self EXCEPT !.value = None],
              call |->
                CASE value.t = "Null" -> <<"visit_unit">>
                  [] value.t = "Bool" -> <<"visit_bool", value.b>>
                  [] value.t = "I64" -> <<"visit_i64", value.i>>
                  [] value.t = "F64" -> <<"visit_f64", value.f>>
                  [] value.t = "String" -> <<"visit_string", value.s>>
                  [] value.t = "Array" ->
                        <<"visit_seq", [iter |-> value.a, len |-> Len(value.a)]>>
                  [] value.t = "Object" ->
                        <<"visit_map", [iter |-> value.o, value |-> None, len |-> Len(value.o)]>>]

\* A visit_option that takes the value out of the slot before visit_some.
Deserializer_visit_option_Takes(self) ==
    IF self.value = None THEN [self |-> self, call |-> RErr(EndOfStream)]
    ELSE IF self.value[1].t = "Null" THEN [self |-> self, call |-> <<"visit_none">>]
    ELSE [self |-> [self EXCEPT !.value = None], call |-> <<"visit_some">>]

\* Deserializer::visit_option: the slot is looked at, not taken.
Deserializer_visit_option(self) ==
    IF self.value = None THEN [self |-> self, call |-> RErr(EndOfStream)]
    ELSE IF self.value[1].t = "Null" THEN [self |-> self, call |-> <<"visit_none">>]
    ELSE [self |-> self, call |-> <<"visit_some">>]

\* A pull that leaves len as it is.
SeqDeserializer_visit_KeepsLen(self, d) ==
    IF self.iter = <<>>
    THEN [self |-> self, de |-> d, ret |-> ROk(None), calls |-> FALSE]
    ELSE [self |-> [self EXCEPT !.iter = Tail(@)],
          de |-> [d EXCEPT !.value = Some(Head(self.iter))],
          ret |-> ROk(None), calls |-> TRUE]

\* A pull that takes the elements from the back.
SeqDeserializer_visit_Reversed(self, d) ==
    IF self.iter = <<>>
    THEN [self |-> self, de |-> d, ret |-> ROk(None), calls |-> FALSE]
    ELSE [self |-> [self EXCEPT !.iter = SubSeq(@, 1, Len(@) - 1), !.len = @ - 1],
          de |-> [d EXCEPT !.value = Some(self.iter[Len(self.iter)])],
          ret |-> ROk(None), calls |-> TRUE]

\* SeqDeserializer::visit up to its call of Deserialize::deserialize(self.de):
\* the driver and the Deserializer after it, whether it makes the call, and
\* what it returns when it does not.
SeqDeserializer_visit(self, d) ==
    IF self.iter = <<>>
    THEN [self |-> self, de |-> d, ret |-> ROk(None), calls |-> FALSE]
    ELSE [self |-> [self EXCEPT !.iter = Tail(@), !.len = @ - 1],
          de |-> [d EXCEPT !.value = Some(Head(self.iter))],
          ret |-> ROk(None), calls |-> TRUE]

\* A pull that ends the sequence when the element's deserialize fails.
visit_Some_or_Err_Swallows(res) == IF res[1] = "Ok" THEN ROk(Some(res[2])) ELSE ROk(None)

\* SeqDeserializer::visit and MapDeserializer::visit_key once deserialize has
\* returned res: Ok(Some(t)) for Ok(t), and an Err as it is (try!).
visit_Some_or_Err(res) == IF res[1] = "Ok" THEN ROk(Some(res[2])) ELSE res

\* MapDeserializer::visit_value once deserialize has returned res.
visit_value_Ok_or_Err(res) == res

\* An end() that always succeeds.
SeqDeserializer_end_AlwaysOk(self) == ROk(<<>>)

\* SeqDeserializer::end
SeqDeserializer_end(self) == IF self.len = 0 THEN ROk(<<>>) ELSE RErr(EndOfStream)

\* SeqDeserializer::size_hint
SeqDeserializer_size_hint(self) == <<self.len, Some(self.len)>>

\* A visit_key that stashes nothing.
MapDeserializer_visit_key_NoStash(self, d) ==
    IF self.iter = <<>>
    THEN [self |-> self, de |-> d, ret |-> ROk(None), calls |-> FALSE]
    ELSE [self |-> [self EXCEPT !.iter = Tail(@), !.len = @ - 1],
          de |-> [d EXCEPT !.value = Some(Value_String(Head(self.iter)[1]))],
          ret |-> ROk(None), calls |-> TRUE]

\* MapDeserializer::visit_key up to its call of deserialize.
MapDeserializer_visit_key(self, d) ==
    IF self.iter = <<>>
    THEN [self |-> self, de |-> d, ret |-> ROk(None), calls |-> FALSE]
    ELSE [self |-> [self EXCEPT !.iter = Tail(@), !.len = @ - 1,
                                !.value = Some(Head(self.iter)[2])],
          de |-> [d EXCEPT !.value = Some(Value_String(Head(self.iter)[1]))],
          ret |-> ROk(None), calls |-> TRUE]

\* MapDeserializer::visit_value up to its call of deserialize:
\* self.value.take().unwrap() panics when no value is stashed.
MapDeserializer_visit_value(self, d) ==
    IF self.value = None
    THEN [self |-> self, de |-> d, panic |-> TRUE]
    ELSE [self |-> [self EXCEPT !.value = None],
          de |-> [d EXCEPT !.value = Some(self.value[1])],
          panic |-> FALSE]

\* MapDeserializer::end
MapDeserializer_end(self) == IF self.len = 0 THEN ROk(<<>>) ELSE RErr(EndOfStream)

\* MapDeserializer::size_hint
MapDeserializer_size_hint(self) == <<self.len, Some(self.len)>>

(***************************************************************************)
(*   from_value::<T>(value) for any sink T: the sink makes the calls it    *)
(* likes on the Deserializer and on the drivers it is handed, and its      *)
(* visitor returns what it likes.                                          *)
(***************************************************************************)

\* Bound: the calls and returns of the sink in one from_value.
MaxCalls == 7

\* What a sink or its visitor returns: the unit stands for any T.
Custom == "Custom"
SinkResults == {ROk(<<>>), RErr(EndOfStream), RErr(Custom)}
\* No call has returned to the sink code that runs now.
Entered == <<"In">>

DeRunning == phase = "de" /\ de_out.res = "running" /\ de_fuel > 0
\* The sink has control, and the other parts stay as they are.
DeCall == DeRunning /\ de_fuel' = de_fuel - 1 /\ UNCHANGED <<phase, lcVars, serVars, de_src>>
\* The code on top has the Deserializer: a deserialize, or a visit_some.
HasDe == Top(de_k).at \in {"deserialize", "visit_some"}
ReplaceTop(k, f) == [k EXCEPT ![Len(k)] = f]
IsPrimitive(call) ==
    call[1] \in {"visit_unit", "visit_bool", "visit_i64", "visit_f64", "visit_string",
                 "visit_none"}

\* The frame of a visit_seq or visit_map in progress holds the driver drv, and
\* as history the items orig the driver was made over and the log of the calls
\* made on it: <<"elt", v>>, <<"key", k>> or <<"value", v>> for what a pull
\* put into the slot, <<"none">> for a pull that returned Ok(None), and
\* <<"end", res>> for an end().

\* deserializer.visit(visitor)
DeVisit ==
    /\ DeCall /\ HasDe
    /\ LET r == Deserializer_visit(de)
       IN  /\ de' = r.self
           /\ de_last' = <<"visit", r.call>>
           /\ CASE r.call[1] = "Err" -> de_ret' = r.call /\ de_k' = de_k
                [] IsPrimitive(r.call) -> de_ret' \in SinkResults /\ de_k' = de_k
                [] r.call[1] = "visit_seq" ->
                     /\ de_ret' = Entered
                     /\ de_k' = Append(de_k, [at |-> "visit_seq", drv |-> r.call[2],
                                              orig |-> r.call[2].iter, log |-> <<>>])
                [] r.call[1] = "visit_map" ->
                     /\ de_ret' = Entered
                     /\ de_k' = Append(de_k, [at |-> "visit_map", drv |-> r.call[2],
                                              orig |-> r.call[2].iter, log |-> <<>>,
                                              pend |-> "none"])
    /\ de_out' = de_out

\* deserializer.visit_option(visitor)
DeVisitOption ==
    /\ DeCall /\ HasDe
    /\ LET r == Deserializer_visit_option(de)
       IN  /\ de' = r.self
           /\ de_last' = <<"visit_option", r.call>>
           /\ CASE r.call[1] = "Err" -> de_ret' = r.call /\ de_k' = de_k
                [] IsPrimitive(r.call) -> de_ret' \in SinkResults /\ de_k' = de_k
                [] r.call[1] = "visit_some" ->
                     /\ de_ret' = Entered
                     /\ de_k' = Append(de_k, [at |-> "visit_some"])
    /\ de_out' = de_out

\* The error a return of res carries on: res itself when it is an Err that a
\* deserialize returns to the pull of a driver; the error carried by the
\* return before when res is the Err that return gave to the code returning
\* now; None otherwise.
Carried(res, toPull) ==
    IF res[1] # "Err" THEN None
    ELSE IF toPull THEN Some(res)
    ELSE IF /\ de_last[1] = "return" /\ de_last[3] # None
            /\ de_ret[1] = "Err" /\ de_ret[2] = res[2]
         THEN de_last[3]
         ELSE None

\* The code that has the Deserializer returns res: a visit_some to the
\* visit_option that called it, which returns it; a deserialize to from_value,
\* or to the pull of a driver, which returns what it makes of it.
DeReturn ==
    /\ DeCall /\ HasDe
    /\ \E res \in SinkResults :
        LET k == Popped(de_k)
        IN  /\ de_last' = <<"return", Top(de_k).at,
                           Carried(res, k # <<>> /\ Top(k).at \in {"visit_seq", "visit_map"})>>
            /\ IF k = <<>>
               THEN /\ de_out' = [res |-> "returned", ret |-> res]
                    /\ de_ret' = de_ret
                    /\ de_k' = de_k
               ELSE /\ de_out' = de_out
                    /\ de_k' = IF Top(k).at = "visit_map"
                               THEN ReplaceTop(k, [Top(k) EXCEPT !.pend = "none"])
                               ELSE k
                    /\ de_ret' =
                         CASE Top(k).at = "visit_seq" -> visit_Some_or_Err(res)
                           [] Top(k).at = "visit_map" /\ Top(k).pend = "key" ->
                                visit_Some_or_Err(res)
                           [] Top(k).at = "visit_map" /\ Top(k).pend = "value" ->
                                visit_value_Ok_or_Err(res)
                           [] OTHER -> res
    /\ de' = de

\* visitor.visit() on the SeqDeserializer
DeSeqVisit ==
    /\ DeCall /\ Top(de_k).at = "visit_seq"
    /\ LET f == Top(de_k)
           r == SeqDeserializer_visit(f.drv, de)
       IN  /\ de' = r.de
           /\ de_last' = <<"seq_visit", r.calls>>
           /\ IF r.calls
              THEN /\ de_ret' = Entered
                   /\ de_k' = Append(ReplaceTop(de_k,
                                 [f EXCEPT !.drv = r.self,
                                           !.log = Append(@, <<"elt", r.de.value[1]>>)]),
                                 [at |-> "deserialize"])
              ELSE /\ de_ret' = r.ret
                   /\ de_k' = ReplaceTop(de_k,
                                 [f EXCEPT !.drv = r.self, !.log = Append(@, <<"none">>)])
    /\ de_out' = de_out

\* visitor.end() on the SeqDeserializer
DeSeqEnd ==
    /\ DeCall /\ Top(de_k).at = "visit_seq"
    /\ de_ret' = SeqDeserializer_end(Top(de_k).drv)
    /\ de_last' = <<"seq_end">>
    /\ de_k' = ReplaceTop(de_k, [Top(de_k) EXCEPT !.log = Append(@, <<"end", de_ret'>>)])
    /\ UNCHANGED <<de, de_out>>

\* The visitor's visit_seq returns res, and Deserializer::visit returns it.
DeSeqReturn ==
    /\ DeCall /\ Top(de_k).at = "visit_seq"
    /\ de_ret' \in SinkResults
    /\ de_last' = <<"return", "visit_seq", Carried(de_ret', FALSE)>>
    /\ de_k' = Popped(de_k)
    /\ UNCHANGED <<de, de_out>>

\* visitor.visit_key() on the MapDeserializer
DeMapVisitKey ==
    /\ DeCall /\ Top(de_k).at = "visit_map"
    /\ LET f == Top(de_k)
           r == MapDeserializer_visit_key(f.drv, de)
       IN  /\ de' = r.de
           /\ de_last' = <<"visit_key", r.calls>>
           /\ IF r.calls
              THEN /\ de_ret' = Entered
                   /\ de_k' = Append(ReplaceTop(de_k,
                                 [f EXCEPT !.drv = r.self, !.pend = "key",
                                           !.log = Append(@, <<"key", r.de.value[1]>>)]),
                                 [at |-> "deserialize"])
              ELSE /\ de_ret' = r.ret
                   /\ de_k' = ReplaceTop(de_k,
                                 [f EXCEPT !.drv = r.self, !.log = Append(@, <<"none">>)])
    /\ de_out' = de_out

\* visitor.visit_value() on the MapDeserializer
DeMapVisitValue ==
    /\ DeCall /\ Top(de_k).at = "visit_map"
    /\ LET f == Top(de_k)
           r == MapDeserializer_visit_value(f.drv, de)
       IN  /\ de' = r.de
           /\ de_last' = <<"visit_value", ~r.panic>>
           /\ IF r.panic
              THEN /\ de_out' = [res |-> "panic", at |-> "visit_value"]
                   /\ UNCHANGED <<de_k, de_ret>>
              ELSE /\ de_out' = de_out
                   /\ de_ret' = Entered
                   /\ de_k' = Append(ReplaceTop(de_k,
                                 [f EXCEPT !.drv = r.self, !.pend = "value",
                                           !.log = Append(@, <<"value", r.de.value[1]>>)]),
                                 [at |-> "deserialize"])

\* visitor.end() on the MapDeserializer
DeMapEnd ==
    /\ DeCall /\ Top(de_k).at = "visit_map"
    /\ de_ret' = MapDeserializer_end(Top(de_k).drv)
    /\ de_last' = <<"map_end">>
    /\ de_k' = ReplaceTop(de_k, [Top(de_k) EXCEPT !.log = Append(@, <<"end", de_ret'>>)])
    /\ UNCHANGED <<de, de_out>>

\* The visitor's visit_map returns res, and Deserializer::visit returns it.
DeMapReturn ==
    /\ DeCall /\ Top(de_k).at = "visit_map"
    /\ de_ret' \in SinkResults
    /\ de_last' = <<"return", "visit_map", Carried(de_ret', FALSE)>>
    /\ de_k' = Popped(de_k)
    /\ UNCHANGED <<de, de_out>>

DeIdle ==
    /\ de = [value |-> None]
    /\ de_k = <<>>
    /\ de_ret = Entered
    /\ de_last = <<"new">>
    /\ de_src = Value_Null
    /\ de_fuel = 0
    /\ de_out = [res |-> "idle"]

\* from_value(value): Deserializer::new, and the sink's deserialize is entered.
DeInit ==
    /\ phase = "de"
    /\ de_src \in DeValues
    /\ de = Deserializer_new(de_src)
    /\ de_k = <<[at |-> "deserialize"]>>
    /\ de_ret = Entered
    /\ de_last = <<"new">>
    /\ de_fuel = MaxCalls
    /\ de_out = [res |-> "running"]

(***************************************************************************)
(*   from_value::<Value>(value): Value as the sink. Its visitor makes a    *)
(* Value of each primitive, an Array of the elements it pulls until "no    *)
(* more", and an Object of the entries it pulls with visit_key and         *)
(* visit_value; it calls end() after the last pull and passes every error  *)
(* on.                                                                     *)
(***************************************************************************)
RECURSIVE Value_deserialize(_)

\* VecVisitor::visit_seq, from the driver drv on: [de, res]
RECURSIVE VecVisitor_visit_seq(_, _, _)
VecVisitor_visit_seq(drv, d, values) ==
    LET p == SeqDeserializer_visit(drv, d)
    IN  IF p.calls
        THEN LET e == Value_deserialize(p.de)
                 res == visit_Some_or_Err(e.res)
             IN  IF res[1] = "Err" THEN [de |-> e.de, res |-> res]
                 ELSE VecVisitor_visit_seq(p.self, e.de, Append(values, res[2][1]))
        ELSE LET end == SeqDeserializer_end(p.self)
             IN  IF end[1] = "Err" THEN [de |-> p.de, res |-> end]
                 ELSE [de |-> p.de, res |-> ROk(values)]

\* BTreeMapVisitor::visit_map, from the driver drv on: [de, res]
RECURSIVE BTreeMapVisitor_visit_map(_, _, _)
BTreeMapVisitor_visit_map(drv, d, values) ==
    LET p == MapDeserializer_visit_key(drv, d)
    IN  IF p.calls
        THEN LET k == Value_deserialize(p.de)
                 key == visit_Some_or_Err(k.res)
             IN  IF key[1] = "Err" THEN [de |-> k.de, res |-> key]
                 ELSE LET q == MapDeserializer_visit_value(p.self, k.de)
                          v == Value_deserialize(q.de)
                          value == visit_value_Ok_or_Err(v.res)
                      IN  IF value[1] = "Err" THEN [de |-> v.de, res |-> value]
                          ELSE BTreeMapVisitor_visit_map(q.self, v.de,
                                  BTreeMap_insert(values, key[2][1].s, value[2]))
        ELSE LET end == MapDeserializer_end(p.self)
             IN  IF end[1] = "Err" THEN [de |-> p.de, res |-> end]
                 ELSE [de |-> p.de, res |-> ROk(values)]

\* Value::deserialize(deserializer): [de, res]
Value_deserialize(d) ==
    LET r == Deserializer_visit(d)
        call == r.call
    IN  CASE call[1] = "Err" -> [de |-> r.self, res |-> call]
          [] call[1] = "visit_unit" -> [de |-> r.self, res |-> ROk(Value_Null)]
          [] call[1] = "visit_bool" -> [de |-> r.self, res |-> ROk(Value_Bool(call[2]))]
          [] call[1] = "visit_i64" -> [de |-> r.self, res |-> ROk(Value_I64(call[2]))]
          [] call[1] = "visit_f64" -> [de |-> r.self, res |-> ROk(Value_F64(call[2]))]
          [] call[1] = "visit_string" -> [de |-> r.self, res |-> ROk(Value_String(call[2]))]
          [] call[1] = "visit_seq" ->
                LET s == VecVisitor_visit_seq(call[2], r.self, <<>>)
                IN  IF s.res[1] = "Err" THEN s
                    ELSE [de |-> s.de, res |-> ROk(Value_Array(s.res[2]))]
          [] call[1] = "visit_map" ->
                LET s == BTreeMapVisitor_visit_map(call[2], r.self, BTreeMap_new)
                IN  IF s.res[1] = "Err" THEN s
                    ELSE [de |-> s.de, res |-> ROk(Value_Object(s.res[2]))]

\* from_value::<Value>
from_value(value) == Value_deserialize(Deserializer_new(value)).res

\* from_value::<Value>(to_value(&v)): to_value has returned, and from_value is
\* called on what it returned.
SerFromValue ==
    /\ phase = "ser" /\ ser_out.res = "value" /\ ser_of # None /\ rt_out = None
    /\ rt_out' = Some(from_value(ser_out.value))
    /\ UNCHANGED <<phase, lcVars, deVars, ser, ser_k, ser_plan, ser_last, ser_src, ser_out,
                   ser_of>>

(***************************************************************************)
(*                    Claims about the Serializer                          *)
(***************************************************************************)

\* The step is the return of the call on top of ser_k, which is at `at`.
Returns(at) == Top(ser_k).at = at /\ ser_last' = Ev("ret") /\ ser_plan' # ser_plan

\* The stack without its n top frames.
Below(self, n) == SubSeq(self.state, 1, Len(self.state) - n)

\* C10: visit_u64(v) never fails and pushes the frame Int(w), w the i64 with the
\* 64 bits of v: w is an i64, it differs from v by 0 or by 2^64 (its leading
\* digit by 0 or by 2^16), and it is v when v < 2^63; 2^63 + 5 gives -2^63 + 5.
VisitU64Narrows ==
    [][ (Running /\ ser_plan' # ser_plan /\ ser_last'[1] = "u64") =>
            LET v == ser_last'[2]
                w == Last(ser').value.i
            IN  /\ ser_out'.res = "running"
                /\ Len(ser'.state) = Len(ser.state) + 1
                /\ Below(ser', 1) = ser.state
                /\ Last(ser') = State_Value(Value_I64(w))
                /\ IsI64(w)
                /\ <<w[2], w[3], w[4]>> = <<v[2], v[3], v[4]>>
                /\ w[1] = IF v[1] < HalfBase THEN v[1] ELSE v[1] - Base
                /\ v = TwoTo63Plus5 => w = <<0 - HalfBase, 0, 0, 5>>
      ]_vars

\* visit_u64(2^63 + 5) was called on a stack that holds an array frame.
VisitU64NarrowsWitness ==
    /\ ser_last = EvV("u64", TwoTo63Plus5)
    /\ Len(ser.state) >= 2
    /\ ser.state[Len(ser.state) - 1].t = "Array"
    /\ Last(ser) = State_Value(Value_I64(<<0 - HalfBase, 0, 0, 5>>))

\* A visit_map_elt call whose key stream has left the String k on top of an
\* object frame, and whose value stream has left one Value on top of that.
InContractEntry ==
    /\ Top(ser_k).at = "visit_map_elt" /\ Top(ser_k).stage = "value"
    /\ Len(ser.state) >= 3
    /\ ser.state[Len(ser.state) - 2].t = "Object"
    /\ ser.state[Len(ser.state) - 1].t = "Value"
    /\ ser.state[Len(ser.state) - 1].value.t = "String"
    /\ Top(ser_k).key = Some(Some(ser.state[Len(ser.state) - 1]))
    /\ Last(ser).t = "Value"
    /\ Top(ser_k).base = Len(ser.state) - 2 /\ Top(ser_k).mid = Len(ser.state) - 1

ScenarioScript == ToValueOf(ScenarioEvents)

\* C2: a visit_map_elt call on an open object frame whose key stream emits the
\* string k and whose value stream emits v pops both frames and inserts k -> v
\* into the object frame; building {x: 1, y: [true, null]} yields that Object.
MapEltInsertsKeyValue ==
    [][ /\ (Running /\ InContractEntry /\ Returns("visit_map_elt")) =>
              LET n == Len(ser.state)
              IN  /\ ser_out'.res = "running"
                  /\ ser'.state = Append(Below(ser, 3),
                        State_Object(BTreeMap_insert(ser.state[n - 2].obj,
                                                     ser.state[n - 1].value.s,
                                                     ser.state[n].value)))
        /\ (ser_src = ScenarioScript /\ ser_out'.res # "running") =>
              ser_out' = [res |-> "value", value |-> ScenarioValue]
      ]_vars

\* The entries a visit_map in progress has been given, as <<key, value>>, when
\* each came from a key stream that left a String and a value stream that left
\* a Value.
EntriesOf(f) ==
    [j \in 1..Len(f.emitted) |-> <<f.emitted[j][1][1].value.s, f.emitted[j][2][1].value>>]
AllInContract(f) ==
    \A j \in 1..Len(f.emitted) :
        /\ f.emitted[j][1] # None /\ f.emitted[j][2] # None
        /\ f.emitted[j][1][1].t = "Value" /\ f.emitted[j][1][1].value.t = "String"
        /\ f.emitted[j][2][1].t = "Value"

\* C3: when a mapping source emits several entries with the same key inside
\* one visit_map, the Object holds the key once, with the value of the last
\* entry emitted; ("a", 1) then ("a", 2) yields {"a": 2}.
LastWriteWins ==
    [][ /\ (Running /\ Returns("visit_map") /\ AllInContract(Top(ser_k))
              /\ ser.state # <<>> /\ Last(ser).t = "Object") =>
              LET es == EntriesOf(Top(ser_k))
              IN  /\ ser_out'.res = "running"
                  /\ Last(ser').t = "Value" /\ Last(ser').value.t = "Object"
                  /\ \A j \in 1..Len(es) :
                        (\A i \in (j + 1)..Len(es) : es[i][1] # es[j][1]) =>
                            /\ \E e \in 1..Len(Last(ser').value.o) : Last(ser').value.o[e] = es[j]
                            /\ Cardinality({e \in 1..Len(Last(ser').value.o) :
                                              Last(ser').value.o[e][1] = es[j][1]}) = 1
        /\ (ser_src = ToValueOf(DuplicateKeys) /\ ser_out'.res # "running") =>
              ser_out' = [res |-> "value",
                          value |-> Value_Object(<< <<(<<97>>), Value_I64(Num(2))>> >>)]
      ]_vars

\* The values the element calls of a visit_seq in progress ended on, when
\* each ended on a completed value.
EmittedValues(f) == [j \in 1..Len(f.emitted) |-> f.emitted[j][1].value]
SeqInContract(f) ==
    \A j \in 1..Len(f.emitted) : f.emitted[j] # None /\ f.emitted[j][1].t = "Value"

\* visit_seq has completed the Array ["x", "a"] for a source that reports one
\* element and emits "x" and then "a".
ArrayOrderPreservedWitness ==
    /\ Running /\ ser_src = ToValueOf(UnderReportedSeq)
    /\ ser_last = Ev("ret")
    /\ Top(ser_k).at = "to_value"
    /\ ser.state = <<State_Value(Value_Array(<<Value_String(<<120>>), Value_String(<<97>>)>>))>>

\* A Value with a NaN in it: it is not equal to itself.
RECURSIVE HasNaN(_)
HasNaN(v) ==
    CASE v.t = "F64" -> ~f64_eq(v.f, v.f)
      [] v.t = "Array" -> \E j \in 1..Len(v.a) : HasNaN(v.a[j])
      [] v.t = "Object" -> \E j \in 1..Len(v.o) : HasNaN(v.o[j][2])
      [] OTHER -> FALSE

\* C1: for every well-formed Value v, to_value(&v) returns a Value and
\* from_value::<Value> of it returns Ok(w) with w == v (v without NaN, which
\* is not equal to itself).
RoundTrip ==
    (phase = "ser" /\ ser_of # None /\ ~HasNaN(ser_of[1])) =>
        /\ ser_out.res # "panic"
        /\ rt_out # None =>
              /\ rt_out[1][1] = "Ok"
              /\ Value_eq(rt_out[1][2], ser_of[1])

\* A visit_map_elt call on an open object frame whose key stream has left
\* one completed value that is not a String, and whose value stream has left
\* one completed value on top of it.
NonStringKeyEntry ==
    /\ Top(ser_k).at = "visit_map_elt" /\ Top(ser_k).stage = "value"
    /\ Len(ser.state) >= 3
    /\ ser.state[Len(ser.state) - 2].t = "Object"
    /\ ser.state[Len(ser.state) - 1].t = "Value"
    /\ ser.state[Len(ser.state) - 1].value.t # "String"
    /\ Top(ser_k).key = Some(Some(ser.state[Len(ser.state) - 1]))
    /\ Last(ser).t = "Value"
    /\ Top(ser_k).base = Len(ser.state) - 2 /\ Top(ser_k).mid = Len(ser.state) - 1

\* C11: a visit_map_elt whose key stream emits a primitive that is not a
\* string does not panic and does not return Ok: it returns an error to its
\* caller, and the object frame gets no entry.
NonStringKeyIsError ==
    [][ (Running /\ NonStringKeyEntry /\ Returns("visit_map_elt")) =>
            /\ ser_out'.res # "panic"
            /\ Len(ser_k') = Len(ser_k)
            /\ \A j \in 1..Len(ser'.state) :
                  (j <= Len(ser.state) /\ ser.state[j].t = "Object") => ser'.state[j] = ser.state[j]
      ]_vars

\* C12: Serializer::unwrap, called by to_value when the source's visit has
\* returned Ok, returns a Value only when the stack holds exactly one frame
\* and that frame is a completed value; for every other stack it panics.
UnwrapCompletion ==
    [][ (Running /\ Returns("to_value")) =>
            IF Len(ser.state) = 1 /\ Last(ser).t = "Value"
            THEN ser_out' = [res |-> "value", value |-> Last(ser).value]
            ELSE ser_out'.res = "panic"
      ]_vars

\* The step is a primitive emission that the Serializer completes.
Primitives == {"unit", "bool", "i64", "u64", "f64", "char", "str", "none"}
EmitsPrimitive == ser_plan' # ser_plan /\ ser_last'[1] \in Primitives

\* self's stack is s with one completed-value frame on top.
OneValueOn(self, s) ==
    /\ Len(self.state) = Len(s) + 1
    /\ Below(self, 1) = s
    /\ Last(self).t = "Value"

\* C15: every emission of one value that completes without panic leaves the
\* stack it started on with exactly one completed-value frame on top: a
\* primitive, and a visit_seq or visit_map with everything its visitor did.  An
\* element call that completes after its streams left one frame (two for an
\* entry) on the stack s of the call leaves s with its top frame, a container
\* of the same kind, holding one addition made of the popped frames, and the
\* frames beneath as they were.
FrameBalance ==
    [][ (Running /\ ser_out'.res = "running") =>
          /\ EmitsPrimitive => OneValueOn(ser', ser.state)
          /\ Returns("visit_seq") =>
                /\ OneValueOn(ser', Top(ser_k).s)
                /\ Last(ser').value.t = "Array"
          /\ Returns("visit_map") =>
                /\ OneValueOn(ser', Top(ser_k).s)
                /\ Last(ser').value.t = "Object"
          /\ (Returns("visit_seq_elt") /\ Below(ser, 1) = Top(ser_k).s) =>
                /\ Len(ser'.state) = Len(Top(ser_k).s)
                /\ Below(ser', 1) = SubSeq(Top(ser_k).s, 1, Len(Top(ser_k).s) - 1)
                /\ Top(Top(ser_k).s).t = "Array"
                /\ Last(ser').t = "Array"
                /\ Last(ser').arr = Append(Top(Top(ser_k).s).arr, Last(ser).value)
          /\ (Returns("visit_map_elt") /\ Top(ser_k).stage = "value"
                /\ Below(ser, 2) = Top(ser_k).s) =>
                /\ Len(ser'.state) = Len(Top(ser_k).s)
                /\ Below(ser', 1) = SubSeq(Top(ser_k).s, 1, Len(Top(ser_k).s) - 1)
                /\ Top(Top(ser_k).s).t = "Object"
                /\ Last(ser').t = "Object"
                /\ \E j \in 1..Len(Last(ser').obj) :
                      /\ Last(ser').obj[j][2] \in {Last(ser).value, Last(Pop(ser)).value}
                      /\ \A e \in 1..Len(Top(Top(ser_k).s).obj) :
                            \/ Top(Top(ser_k).s).obj[e][1] = Last(ser').obj[j][1]
                            \/ \E i \in 1..Len(Last(ser').obj) :
                                  Last(ser').obj[i] = Top(Top(ser_k).s).obj[e]
      ]_vars

\* An Array of one string is completed as an element of an Array in progress.
FrameBalanceWitness ==
    /\ Running
    /\ ser_last = Ev("ret")
    /\ Len(ser_k) >= 1 /\ Top(ser_k).at = "visit_seq_elt"
    /\ Len(ser.state) = 2
    /\ ser.state[1].t = "Array"
    /\ Top(ser_k).s = <<ser.state[1]>>
    /\ ser.state[2].t = "Value"
    /\ ser.state[2].value.t = "Array"
    /\ Len(ser.state[2].value.a) = 1

\* The frame n frames beneath the top of self's stack is of kind t.
FrameIs(self, n, t) == Len(self.state) > n /\ self.state[Len(self.state) - n].t = t

\* C19: a visit_seq_elt whose element left no completed-value frame on top, or
\* left one on something other than an array frame; a visit_map_elt whose
\* streams did not leave two completed-value frames on top, or left them on
\* something other than an object frame; and a visit_seq or visit_map whose
\* visitor did not leave its container frame on top: each ends in a panic, not
\* in a return, and every frame still on the stack is as it was.
OutOfContractPanics ==
    [][ (/\ Running
         /\ \/ Returns("visit_seq_elt")
                  /\ ~(FrameIs(ser, 0, "Value") /\ FrameIs(ser, 1, "Array"))
            \/ Returns("visit_map_elt") /\ Top(ser_k).stage = "value"
                  /\ ~(FrameIs(ser, 0, "Value") /\ FrameIs(ser, 1, "Value")
                         /\ FrameIs(ser, 2, "Object"))
            \/ Returns("visit_seq") /\ ~FrameIs(ser, 0, "Array")
            \/ Returns("visit_map") /\ ~FrameIs(ser, 0, "Object")) =>
          /\ ser_out'.res = "panic"
          /\ ser_out'.at = Top(ser_k).at
          /\ ser_k' = ser_k
          /\ Len(ser'.state) <= Len(ser.state)
          /\ ser'.state = SubSeq(ser.state, 1, Len(ser'.state))
      ]_vars

\* visit_seq_elt was called on an object frame and its element emitted one
\* value: the call has panicked and the object frame is as it was.
OutOfContractPanicsWitness ==
    /\ phase = "ser"
    /\ ser_out.res = "panic" /\ ser_out.at = "visit_seq_elt"
    /\ Top(ser_k).at = "visit_seq_elt"
    /\ ser.state = <<State_Object(BTreeMap_new)>>
    /\ Top(ser_k).s = ser.state

(***************************************************************************)
(*               Claims about the Deserializer and its drivers             *)
(***************************************************************************)
IsOk(res) == res[1] = "Ok"
IsErr(res, e) == res[1] = "Err" /\ res[2] = e
\* The entries of this kind in the log of a driver, and how many of the first
\* j entries are pulls that delivered an element or a key.
Delivered(f, kind) == SelectSeq(f.log, LAMBDA e : e[1] = kind)
PulledIn(f, j) == Cardinality({i \in 1..j : f.log[i][1] \in {"elt", "key"}})
\* The step is a call of this method by the sink.
DeCalls(method) == DeRunning /\ de_fuel' # de_fuel /\ de_last'[1] = method

\* C4: the elements emitted through visit_seq_elt inside one visit_seq make,
\* in the order emitted and whatever the size hint, the Array the visit_seq
\* completes; and a SeqDeserializer hands the elements of its Array to
\* successive pulls in index order, each once.
ArrayOrderPreserved ==
    /\ [][ (Running /\ Returns("visit_seq") /\ SeqInContract(Top(ser_k))
              /\ ser.state # <<>> /\ Last(ser).t = "Array") =>
              /\ ser_out'.res = "running"
              /\ ser'.state = Append(Below(ser, 1),
                                State_Value(Value_Array(EmittedValues(Top(ser_k)))))
              /\ Len(Last(ser').value.a) = Len(Top(ser_k).emitted)
         ]_vars
    /\ [](\A j \in 1..Len(de_k) :
            de_k[j].at = "visit_seq" =>
                LET f == de_k[j]
                    d == Delivered(f, "elt")
                IN  /\ Len(d) <= Len(f.orig)
                    /\ \A i \in 1..Len(d) : d[i][2] = f.orig[i]
                    /\ f.drv.iter = SubSeq(f.orig, Len(d) + 1, Len(f.orig))
                    /\ (j = Len(de_k) - 1 /\ de_last[1] = "seq_visit") =>
                          de.value = Some(f.orig[Len(d)]))

\* C5: a MapDeserializer hands the keys of its Object to successive visit_key
\* calls in strictly ascending order, each once, however the Object was
\* built; a visit_value that directly follows a visit_key hands over the
\* value of that key, and does not panic.
ObjectOrderAndPairing ==
    /\ \A j \in 1..Len(de_k) :
          de_k[j].at = "visit_map" =>
              LET f == de_k[j]
                  keys == Delivered(f, "key")
              IN  /\ Len(keys) <= Len(f.orig)
                  /\ \A i \in 1..Len(keys) : keys[i][2] = Value_String(f.orig[i][1])
                  /\ \A a, b \in 1..Len(f.orig) : a < b => StrLess(f.orig[a][1], f.orig[b][1])
                  /\ \A i \in 2..Len(f.log) :
                        (f.log[i][1] = "value" /\ f.log[i - 1][1] = "key") =>
                            /\ f.log[i - 1][2] = Value_String(f.orig[PulledIn(f, i)][1])
                            /\ f.log[i][2] = f.orig[PulledIn(f, i)][2]
                  /\ (j = Len(de_k) - 1 /\ de_last[1] \in {"visit_key", "visit_value"}) =>
                        de.value = Some(f.log[Len(f.log)][2])
    /\ (phase = "de" /\ de_out.res = "panic") =>
          LET f == Top(de_k)
          IN  f.log = <<>> \/ f.log[Len(f.log)][1] # "key"

\* visit_key has handed over the first key of an Object built by inserting
\* "x" before "a", visit_value its value, and visit_key the second key.
ObjectOrderAndPairingWitness ==
    /\ phase = "de"
    /\ de_src = Value_Object(MapOf(<< <<120>>, <<97>> >>, <<Value_Null, Value_I64(Num(1))>>))
    /\ Len(de_k) = 3
    /\ de_k[2].at = "visit_map"
    /\ de_k[2].log = << <<"key", Value_String(<<97>>)>>, <<"value", Value_I64(Num(1))>>,
                        <<"key", Value_String(<<120>>)>> >>
    /\ de.value = Some(Value_String(<<120>>))

\* C6: end() of a driver over n items returns Ok when n elements (keys) have
\* been pulled and an EndOfStream error when fewer have; a pull delivers only
\* while fewer than n have been pulled, and after that returns Ok(None), which
\* leaves what end() returns as it was.
ArityEnforcement ==
    /\ \A j \in 1..Len(de_k) :
          de_k[j].at \in {"visit_seq", "visit_map"} =>
              LET f == de_k[j]
                  n == Len(f.orig)
                  end == IF f.at = "visit_seq" THEN SeqDeserializer_end(f.drv)
                         ELSE MapDeserializer_end(f.drv)
              IN  /\ \A i \in 1..Len(f.log) :
                        LET m == PulledIn(f, i - 1)
                        IN  /\ f.log[i][1] = "end" =>
                                IF m = n THEN IsOk(f.log[i][2])
                                ELSE IsErr(f.log[i][2], EndOfStream)
                            /\ f.log[i][1] = "none" => m = n
                            /\ f.log[i][1] \in {"elt", "key"} => m < n
                  /\ IF PulledIn(f, Len(f.log)) = n THEN IsOk(end)
                     ELSE IsErr(end, EndOfStream)
    /\ (phase = "de" /\ de_out.res = "running" /\ de_last[1] \in {"seq_visit", "visit_key"}
          /\ ~de_last[2]) => de_ret = ROk(None)
    /\ (phase = "de" /\ de_last[1] \in {"seq_end", "map_end"}) =>
          LET f == Top(de_k)
          IN  de_ret = f.log[Len(f.log)][2]

\* On an Array of one element: end() before the pull failed, end() after it
\* succeeded, another pull returned Ok(None), and end() succeeded again.
ArityEnforcementWitness ==
    /\ phase = "de"
    /\ de_src = Value_Array(<<Value_I64(Num(1))>>)
    /\ Len(de_k) = 2
    /\ de_k[2].at = "visit_seq"
    /\ de_k[2].log = << <<"end", RErr(EndOfStream)>>, <<"elt", Value_I64(Num(1))>>,
                        <<"end", ROk(<<>>)>>, <<"none">>, <<"end", ROk(<<>>)>> >>
    /\ de_ret = ROk(<<>>)

\* C7: a new Deserializer holds its value in the slot; a visit on a full slot
\* empties it and calls the visitor; a visit on an empty slot returns an
\* EndOfStream error, calls nothing and changes nothing.
OneShotSlot ==
    /\ []((phase = "de" /\ de_last = <<"new">>) => de.value = Some(de_src))
    /\ [][ DeCalls("visit") =>
              IF de.value = None
              THEN /\ IsErr(de_last'[2], EndOfStream)
                   /\ IsErr(de_ret', EndOfStream)
                   /\ de' = de /\ de_k' = de_k /\ de_out' = de_out
              ELSE /\ de'.value = None
                   /\ de_last'[2][1] # "Err"
         ]_vars

\* A second visit directly after the first, which had dispatched a Bool.
OneShotSlotWitness ==
    /\ phase = "de"
    /\ de_src = Value_Bool(TRUE)
    /\ de_fuel = MaxCalls - 2
    /\ de_last = <<"visit", RErr(EndOfStream)>>
    /\ de_ret = RErr(EndOfStream)
    /\ de.value = None

\* C13: a visit on a full slot makes one call on the visitor, chosen by the
\* variant of the value in the slot, with the payload the value holds: an
\* Array gives visit_seq with a driver over its elements, an Object visit_map
\* with a driver over its entries.
Dispatch ==
    [][ (DeCalls("visit") /\ de.value # None) =>
            LET v == de.value[1]
                call == de_last'[2]
            IN  /\ de_out' = de_out
                /\ CASE v.t = "Null" -> call[1] = "visit_unit" /\ Len(call) = 1
                     [] v.t = "Bool" -> call[1] = "visit_bool" /\ call[2] = v.b
                     [] v.t = "I64" -> call[1] = "visit_i64" /\ call[2] = v.i
                     [] v.t = "F64" -> call[1] = "visit_f64" /\ call[2] = v.f
                     [] v.t = "String" -> call[1] = "visit_string" /\ call[2] = v.s
                     [] v.t = "Array" ->
                          /\ call[1] = "visit_seq"
                          /\ call[2] = [iter |-> v.a, len |-> Len(v.a)]
                          /\ Len(de_k') = Len(de_k) + 1
                          /\ Top(de_k').at = "visit_seq" /\ Top(de_k').drv = call[2]
                          /\ Top(de_k').log = <<>>
                     [] v.t = "Object" ->
                          /\ call[1] = "visit_map"
                          /\ call[2] = [iter |-> v.o, value |-> None, len |-> Len(v.o)]
                          /\ Len(de_k') = Len(de_k) + 1
                          /\ Top(de_k').at = "visit_map" /\ Top(de_k').drv = call[2]
                          /\ Top(de_k').log = <<>>
                /\ v.t \notin {"Array", "Object"} => de_k' = de_k
      ]_vars

\* A visit has dispatched the Array [null, 1] to visit_seq.
DispatchWitness ==
    /\ phase = "de"
    /\ de_src = Value_Array(<<Value_Null, Value_I64(Num(1))>>)
    /\ de_fuel = MaxCalls - 1
    /\ de_last[1] = "visit" /\ de_last[2][1] = "visit_seq"
    /\ de_last[2][2] = [iter |-> <<Value_Null, Value_I64(Num(1))>>, len |-> 2]
    /\ de.value = None

\* C14: visit_option calls visit_none when the slot holds Null; calls
\* visit_some with the same Deserializer, the value still in its slot, when
\* the slot holds anything else, so that a visit made from visit_some
\* dispatches on that value; and returns an EndOfStream error on an empty slot.
VisitOption ==
    [][ DeCalls("visit_option") =>
            LET call == de_last'[2]
            IN  /\ de' = de /\ de_out' = de_out
                /\ IF de.value = None
                   THEN IsErr(call, EndOfStream) /\ IsErr(de_ret', EndOfStream) /\ de_k' = de_k
                   ELSE IF de.value[1].t = "Null"
                   THEN call[1] = "visit_none" /\ de_k' = de_k
                   ELSE /\ call[1] = "visit_some"
                        /\ de_k' = Append(de_k, [at |-> "visit_some"])
                        /\ Deserializer_visit(de').call =
                              Deserializer_visit(Deserializer_new(de.value[1])).call
      ]_vars

\* visit_option on Bool(true) called visit_some, and the visit made from it
\* called visit_bool(true).
VisitOptionWitness ==
    /\ phase = "de"
    /\ de_src = Value_Bool(TRUE)
    /\ de_fuel = MaxCalls - 2
    /\ Len(de_k) = 2 /\ de_k[2].at = "visit_some"
    /\ de_last[1] = "visit" /\ de_last[2][1] = "visit_bool" /\ de_last[2][2] = TRUE
    /\ de.value = None

\* C16: right after visit or visit_option has called a visitor primitive for
\* the value in the slot (visit_none for Null included; visit_some, which hands
\* the Deserializer on with the value still to be dispatched, left aside), the
\* slot is empty.
DispatchConsumes ==
    (/\ phase = "de"
     /\ de_last[1] \in {"visit", "visit_option"}
     /\ de_last[2][1] \notin {"Err", "visit_some"}) => de.value = None

\* C18: an Err returned by the deserialize of an element, key or value pulled
\* through a driver is what the pull returns, the same error and neither
\* Ok(None) nor a value; and when every return after it up to from_value
\* passes on the Err it was given, from_value returns that same error.
NoPartialResults ==
    (phase = "de" /\ de_last[1] = "return" /\ de_last[3] # None) =>
        LET e == de_last[3][1]
            got == IF de_out.res = "returned" THEN de_out.ret ELSE de_ret
        IN  /\ e[1] = "Err"
            /\ de_out.res \in {"returned", "running"}
            /\ got[1] = "Err" /\ got[2] = e[2]

\* from_value of an Array of two elements returns the error that the
\* deserialize of an element returned, passed on by visit_seq and deserialize.
NoPartialResultsWitness ==
    /\ phase = "de"
    /\ de_src.t = "Array" /\ Len(de_src.a) = 2
    /\ de_fuel = 0
    /\ de_last = <<"return", "deserialize", Some(RErr(Custom))>>
    /\ de_out.res = "returned"
    /\ de_out.ret[1] = "Err" /\ de_out.ret[2] = Custom

\* C20: in every state, the len of each SeqDeserializer and MapDeserializer
\* in use is the number of items its iterator has yet to yield, which are the
\* tail of the container's items: the container's length less one for each
\* element or key delivered, and nothing less for a pull that returned
\* Ok(None); it is never negative, and size_hint() is (len, Some(len)).
RemainingCount ==
    phase = "de" =>
        \A j \in 1..Len(de_k) :
            de_k[j].at \in {"visit_seq", "visit_map"} =>
                LET f == de_k[j]
                    pulled == PulledIn(f, Len(f.log))
                    hint == IF f.at = "visit_seq" THEN SeqDeserializer_size_hint(f.drv)
                            ELSE MapDeserializer_size_hint(f.drv)
                IN  /\ f.drv.len = Len(f.drv.iter)
                    /\ f.drv.len >= 0
                    /\ f.drv.len = Len(f.orig) - pulled
                    /\ f.drv.iter = SubSeq(f.orig, pulled + 1, Len(f.orig))
                    /\ f.log = <<>> => f.drv.len = Len(f.orig)
                    /\ hint[1] = Len(f.drv.iter)
                    /\ hint[2] = Some(Len(f.drv.iter))

\* The driver of an Array of two elements has delivered both and then
\* returned Ok(None): its len is 0.
RemainingCountWitness ==
    /\ phase = "de"
    /\ Len(de_k) = 2 /\ de_k[2].at = "visit_seq"
    /\ Len(de_k[2].orig) = 2
    /\ Len(Delivered(de_k[2], "elt")) = 2
    /\ de_k[2].log[Len(de_k[2].log)] = <<"none">>
    /\ de_k[2].drv.len = 0
    /\ de_last[1] = "seq_visit"

(***************************************************************************)
(*                        The specifications                               *)
(***************************************************************************)
IterInit == LcInit /\ phase = "iter" /\ SerIdle /\ DeIdle
IterNext == LcNext \/ LcPeek
SpecIter == IterInit /\ [][IterNext]_vars

TreeInit == LcIdle /\ ((SerInit /\ DeIdle) \/ (DeInit /\ SerIdle))
TreeNext ==
    \/ SerVisitUnit \/ SerVisitBool \/ SerVisitI64 \/ SerVisitU64 \/ SerVisitF64
    \/ SerVisitChar \/ SerVisitStr \/ SerVisitNone \/ SerVisitSome \/ SerVisitSomeReturn
    \/ SerVisitSeq \/ SerVisitSeqEnd \/ SerVisitSeqElt \/ SerVisitSeqEltEnd
    \/ SerVisitMap \/ SerVisitMapEnd \/ SerVisitMapElt \/ SerVisitMapEltKeyDone
    \/ SerVisitMapEltEnd \/ SerSourceFails \/ SerToValueReturn \/ SerFromValue
    \/ DeVisit \/ DeVisitOption \/ DeReturn \/ DeSeqVisit \/ DeSeqEnd \/ DeSeqReturn
    \/ DeMapVisitKey \/ DeMapVisitValue \/ DeMapEnd \/ DeMapReturn
SpecTree == TreeInit /\ [][TreeNext]_vars

=============================================================================
